---------------------------- MODULE Spec2Model ----------------------------
(***************************************************************************)
(* Model of src/app.py: the contract specification (ContractSpec), the    *)
(* cross-margin position (CrossMarginPosition) with its static sizing      *)
(* routine calculate_from_risk, and the request flow of main() with the    *)
(* log store behind save_log / load_logs.                                  *)
(*                                                                         *)
(* Python floats are modelled as exact rationals [n, d] in lowest terms    *)
(* with d > 0; Optional values are modelled as sequences: None is << >>    *)
(* and a present value v is << v >>.                                       *)
(***************************************************************************)
EXTENDS Integers, Sequences, FiniteSets, TLC

VARIABLES
    rq,      \* the last ContractSpec.round_qty call: spec's min_qty, argument, result
    call,    \* the last CrossMarginPosition.calculate_from_risk call: arguments, outcome
    pos,     \* a CrossMarginPosition object: its contract spec and its fields
    last,    \* the outcome of the last method call on pos
    pc,      \* main(): the position of the script run
    req,     \* main(): the widget values of the current run and the plan computed from them
    ui,      \* main(): the messages rendered so far in the current run
    store,   \* the Google Sheets log: the rows it holds
    cnt      \* main(): per-run counters of calculations and log appends

vars == <<rq, call, pos, last, pc, req, ui, store, cnt>>

-----------------------------------------------------------------------------
(* Bounds of the model *)

\* largest integer used for a price, a balance or a risk amount
MaxAmount == 4
\* largest numerator of a raw quantity handed to round_qty
MaxRawNum == 12
\* largest number of rows the log store holds in the model
MaxLogs == 2

-----------------------------------------------------------------------------
(* Exact arithmetic standing for Python's float arithmetic *)

None == << >>

Some(v) == << v >>

Abs(i) == IF i < 0 THEN -i ELSE i

RECURSIVE GCD(_, _)
GCD(a, b) == IF b = 0 THEN a ELSE GCD(b, a % b)

\* the rational n/d in lowest terms with a positive denominator (d # 0)
Rat(n, d) ==
    LET g == GCD(Abs(n), Abs(d))
        s == IF d < 0 THEN -1 ELSE 1
    IN  [n |-> (s * n) \div g, d |-> Abs(d) \div g]

RInt(i) == [n |-> i, d |-> 1]

\* The operations reduce by common factors before they multiply, so that the
\* intermediate products stay as small as the operands allow.
RMul(a, b) ==
    LET g1 == GCD(Abs(a.n), b.d)
        g2 == GCD(Abs(b.n), a.d)
    IN  [n |-> (a.n \div g1) * (b.n \div g2), d |-> (a.d \div g2) * (b.d \div g1)]

RAdd(a, b) ==
    LET g == GCD(a.d, b.d)
    IN  Rat(a.n * (b.d \div g) + b.n * (a.d \div g), (a.d \div g) * b.d)

RSub(a, b) == RAdd(a, [n |-> -b.n, d |-> b.d])

\* a / b for b # 0
RDiv(a, b) ==
    RMul(a, IF b.n < 0 THEN [n |-> -b.d, d |-> -b.n] ELSE [n |-> b.d, d |-> b.n])

RNeg(a) == [n |-> -a.n, d |-> a.d]

RAbs(a) == [n |-> Abs(a.n), d |-> a.d]

RLt(a, b) ==
    LET g == GCD(a.d, b.d)
    IN  a.n * (b.d \div g) < b.n * (a.d \div g)

RLe(a, b) == ~RLt(b, a)

RIsZero(a) == a.n = 0

RPos(a) == a.n > 0

\* math.floor and math.ceil
RFloor(a) == a.n \div a.d

RCeil(a) == -((-a.n) \div a.d)

RECURSIVE Pow10(_)
Pow10(k) == IF k = 0 THEN 1 ELSE 10 * Pow10(k - 1)

-----------------------------------------------------------------------------
(* ContractSpec *)

\* The number of decimal places of a rational with a finite decimal expansion.
RECURSIVE DecimalPlaces(_)
DecimalPlaces(a) == IF a.d = 1 THEN 0 ELSE 1 + DecimalPlaces(RMul(a, RInt(10)))

\* The decimal exponent e of 0 < a < 1: the least e with a * 10^e >= 1.
RECURSIVE DecimalExponent(_)
DecimalExponent(a) ==
    IF RLe(RInt(1), a) THEN 0 ELSE 1 + DecimalExponent(RMul(a, RInt(10)))

\* len(str(min_qty).split('.')[-1]) for 0 < min_qty < 1.  str() of a float
\* writes positional notation ("0.0001") down to 1e-04 and exponent notation
\* ("1e-05", "2.5e-05") below: there the text after the last '.' is the mantissa's
\* fraction digits (the whole mantissa when it has no '.') followed by the
\* four characters "e-XX".
StrFractionLen(m) ==
    LET e == DecimalExponent(m)
    IN  IF e <= 4
        THEN DecimalPlaces(m)
        ELSE LET mant == RMul(m, RInt(Pow10(e)))
                 md   == DecimalPlaces(mant)
             IN  (IF md = 0 THEN 1 ELSE md) + 4

\* ContractSpec.round_qty, with min_qty the spec's minimum quantity
round_qty(min_qty, qty) ==
    IF RLe(min_qty, RInt(0))
    THEN qty
    ELSE LET precision == IF RLt(min_qty, RInt(1)) THEN StrFractionLen(min_qty) ELSE 0
             factor    == Pow10(precision)
         IN  Rat(RFloor(RMul(qty, RInt(factor))), factor)

-----------------------------------------------------------------------------
(* CrossMarginPosition *)

\* The fields of ContractSpec the position reads (symbol, price_tick and
\* taker_fee_rate are read by none of the modelled methods).
ContractSpec(min_qty, max_leverage, mmr, liquidation_fee_rate) ==
    [min_qty |-> min_qty, max_leverage |-> max_leverage, mmr |-> mmr,
     liquidation_fee_rate |-> liquidation_fee_rate]

DEFAULT_SPEC == ContractSpec(Rat(1, 10000), 200, Rat(5, 1000), Rat(4, 10000))

\* CrossMarginPosition.__init__
NewPosition(contract_spec, balance) ==
    [spec |-> contract_spec, balance |-> balance, entry_price |-> None,
     quantity |-> RInt(0), leverage |-> None, mark_price |-> None]

\* the outcome of a method: the object afterwards and the exception raised, if any
Ok(p) == [status |-> "ok", error |-> "", pos |-> p]

Raise(p, e) == [status |-> "raise", error |-> e, pos |-> p]

LeverageAllowedNoLowerBound(leverage, max_leverage) == leverage <= max_leverage

\* 1 <= leverage <= self.spec.max_leverage
LeverageAllowed(leverage, max_leverage) == 1 <= leverage /\ leverage <= max_leverage

open_position(p, entry_price, quantity, leverage) ==
    IF ~LeverageAllowed(leverage, p.spec.max_leverage)
    THEN Raise(p, "ValueError: leverage out of range")
    ELSE IF RIsZero(quantity)
    THEN Raise(p, "ValueError: quantity is zero")
    ELSE LET abs_qty        == RAbs(quantity)
             notional       == RMul(abs_qty, entry_price)
             initial_margin == RDiv(notional, RInt(leverage))
         IN  IF RLt(p.balance, initial_margin)
             THEN Raise(p, "ValueError: insufficient balance")
             ELSE LET rounded_qty ==
                          RMul(round_qty(p.spec.min_qty, abs_qty),
                               RInt(IF RPos(quantity) THEN 1 ELSE -1))
                  IN  Ok([p EXCEPT !.entry_price = Some(entry_price),
                                   !.quantity = rounded_qty,
                                   !.leverage = Some(leverage),
                                   !.mark_price = Some(entry_price)])

update_mark_price(p, price) == Ok([p EXCEPT !.mark_price = Some(price)])

get_unrealized_pnl(p) ==
    IF RIsZero(p.quantity) \/ p.mark_price = None
    THEN RInt(0)
    ELSE IF RPos(p.quantity)
    THEN RMul(RSub(p.mark_price[1], p.entry_price[1]), p.quantity)
    ELSE RMul(RSub(p.entry_price[1], p.mark_price[1]), RAbs(p.quantity))

\* get_liquidation_price: numerator and denominator of the solved price
LiqNumerator(p) ==
    LET notional == RMul(p.entry_price[1], RAbs(p.quantity))
    IN  IF RPos(p.quantity) THEN RSub(p.balance, notional) ELSE RAdd(p.balance, notional)

LiqDenominator(p) ==
    LET rates == RAdd(p.spec.mmr, p.spec.liquidation_fee_rate)
    IN  RMul(RAbs(p.quantity),
             IF RPos(p.quantity) THEN RSub(rates, RInt(1)) ELSE RAdd(rates, RInt(1)))

AnyPriceOrNone(price) == Some(price)

\* return p if p > 0 else None
PositiveOrNone(price) == IF RPos(price) THEN Some(price) ELSE None

get_liquidation_price(p) ==
    IF RIsZero(p.quantity)
    THEN None
    ELSE IF RIsZero(LiqDenominator(p))
    THEN None
    ELSE PositiveOrNone(RDiv(LiqNumerator(p), LiqDenominator(p)))

adjust_leverage(p, new_leverage) ==
    IF ~LeverageAllowed(new_leverage, p.spec.max_leverage)
    THEN Raise(p, "ValueError: leverage out of range")
    ELSE IF RIsZero(p.quantity)
    THEN Ok([p EXCEPT !.leverage = Some(new_leverage)])
    ELSE LET notional     == RMul(RAbs(p.quantity), p.entry_price[1])
             new_margin   == RDiv(notional, RInt(new_leverage))
             total_equity == RAdd(p.balance, get_unrealized_pnl(p))
         IN  IF RLt(total_equity, new_margin)
             THEN Raise(p, "ValueError: insufficient equity")
             ELSE Ok([p EXCEPT !.leverage = Some(new_leverage)])

-----------------------------------------------------------------------------
(* CrossMarginPosition.calculate_from_risk *)

Plan(quantity, leverage, margin, notional, profit, rr, liquidation_price) ==
    [quantity |-> quantity, leverage |-> leverage, margin |-> margin,
     notional |-> notional, profit |-> profit, rr |-> rr,
     liquidation_price |-> liquidation_price]

Returned(plan) == [status |-> "ok", error |-> "", plan |-> Some(plan)]

Raised(e) == [status |-> "raise", error |-> e, plan |-> None]

\* qty if is_long else -qty
SignedQty(qty, is_long) == IF is_long THEN qty ELSE RNeg(qty)

MarginIsNotional(notional, leverage) == notional

\* notional / leverage
ActualMargin(notional, leverage) == RDiv(notional, RInt(leverage))

calculate_from_risk(entry_price, stop_loss, risk_amount, balance, contract_spec, take_profit) ==
    IF entry_price = stop_loss
    THEN Raised("ValueError: stop loss equals entry")
    ELSE
    LET is_long    == RLt(stop_loss, entry_price)
        price_diff == RAbs(RSub(entry_price, stop_loss))
        raw_qty    == RDiv(risk_amount, price_diff)
        floored    == round_qty(contract_spec.min_qty, raw_qty)
    IN
    IF RLe(floored, RInt(0))
    THEN Raised("ValueError: quantity too small")
    ELSE
    LET qty      == SignedQty(floored, is_long)
        abs_qty  == RAbs(qty)
        notional == RMul(abs_qty, entry_price)
    IN
    IF RLe(balance, RInt(0))
    THEN Raised("ValueError: balance must be positive")
    ELSE
    LET min_leverage_needed == RCeil(RDiv(notional, balance))
    IN
    IF min_leverage_needed > contract_spec.max_leverage
    THEN Raised("ValueError: leverage exceeds maximum")
    ELSE
    LET leverage == min_leverage_needed
    IN
    IF leverage = 0
    THEN Raised("ZeroDivisionError")
    ELSE
    LET actual_margin == ActualMargin(notional, leverage)
        temp == open_position(NewPosition(contract_spec, balance),
                              entry_price, qty, leverage)
    IN
    IF temp.status = "raise"
    THEN Raised(temp.error)
    ELSE
    LET liq_price == get_liquidation_price(temp.pos)
        profit == IF take_profit = None
                  THEN None
                  ELSE Some(RMul(abs_qty, RAbs(RSub(take_profit[1], entry_price))))
        rr     == IF take_profit = None
                  THEN None
                  ELSE IF RIsZero(risk_amount)
                  THEN Some(RInt(0))
                  ELSE Some(RDiv(profit[1], risk_amount))
    IN  Returned(Plan(qty, leverage, actual_margin, notional, profit, rr, liq_price))

-----------------------------------------------------------------------------
(* Specification SpecRound: round_qty applied to bounded inputs *)

\* minimum quantity increments: 0 and -1 (no constraint), powers of ten, others
MinQtys ==
    { RInt(0), RInt(-1), Rat(1, 1000000), Rat(1, 10000), Rat(1, 100), Rat(1, 10),
      Rat(1, 4), Rat(1, 2), RInt(1), RInt(5), RInt(10) }

RawDens == {1, 3, 8, 1000, 1000000}

RawQtys == { Rat(n, d) : n \in 0..MaxRawNum, d \in RawDens }

NoRq == [min_qty |-> RInt(0), qty |-> RInt(0), result |-> None]

NoCall == [status |-> "none"]

NoPos == [status |-> "none"]

NoLast == [op |-> "none"]

NoReq == [status |-> "none"]

NoCnt == [calcs |-> 0, appends |-> 0]

\* the inputs of the call are drawn first; the call then computes its result
RoundInit ==
    /\ rq \in { [min_qty |-> m, qty |-> x, result |-> None] : m \in MinQtys, x \in RawQtys }
    /\ call = NoCall /\ pos = NoPos /\ last = NoLast
    /\ pc = "off" /\ req = NoReq /\ ui = << >> /\ store = << >> /\ cnt = NoCnt

RoundQtyCall ==
    /\ rq.result = None
    /\ rq' = [rq EXCEPT !.result = Some(round_qty(rq.min_qty, rq.qty))]
    /\ UNCHANGED <<call, pos, last, pc, req, ui, store, cnt>>

RoundNext == RoundQtyCall

SpecRound == RoundInit /\ [][RoundNext]_vars

\* m divides a: a is an integer multiple of m (m > 0)
IsMultipleOf(a, m) == RDiv(a, m).d = 1

(* C4: for every increment m > 0 and raw quantity x >= 0, round_qty(x) is the
   largest integer multiple of m that is <= x: a multiple of m, never above x,
   and less than m below x. *)
C4_RoundQtyLargestMultiple ==
    (rq.result # None /\ RPos(rq.min_qty)) =>
        LET r == rq.result[1]
        IN  /\ IsMultipleOf(r, rq.min_qty)
            /\ RLe(r, rq.qty)
            /\ RLt(RSub(rq.qty, r), rq.min_qty)

-----------------------------------------------------------------------------
(* Specification SpecCalc: calculate_from_risk applied to bounded inputs *)

\* the program's default spec, a coarse one with a non-decimal increment, one
\* without a quantity constraint, and one whose rates sum beyond 1
CalcSpecs ==
    { DEFAULT_SPEC,
      ContractSpec(Rat(1, 2), 5, Rat(1, 4), Rat(1, 10)),
      ContractSpec(RInt(0), 3, Rat(1, 10), Rat(1, 100)),
      ContractSpec(RInt(5), 2, Rat(3, 4), Rat(1, 2)) }

\* prices and risk amounts, the non-positive ones included
Amounts == { RInt(i) : i \in -1..MaxAmount }

\* account balances: the amounts and a small fractional one
Balances == Amounts \cup { Rat(1, 50) }

TakeProfits == {None} \cup { Some(a) : a \in Amounts }

\* the arguments of the call are drawn first; the call then computes its outcome
CalcInit ==
    /\ call \in { [status |-> "pending", error |-> "", plan |-> None,
                   entry_price |-> e, stop_loss |-> sl, risk_amount |-> r,
                   balance |-> b, spec |-> cs, take_profit |-> tp] :
                  e \in Amounts, sl \in Amounts, r \in Amounts, b \in Balances,
                  cs \in CalcSpecs, tp \in TakeProfits }
    /\ rq = NoRq /\ pos = NoPos /\ last = NoLast
    /\ pc = "off" /\ req = NoReq /\ ui = << >> /\ store = << >> /\ cnt = NoCnt

CalculateFromRisk ==
    /\ call.status = "pending"
    /\ LET r == calculate_from_risk(call.entry_price, call.stop_loss, call.risk_amount,
                                    call.balance, call.spec, call.take_profit)
       IN  call' = [call EXCEPT !.status = r.status, !.error = r.error, !.plan = r.plan]
    /\ UNCHANGED <<rq, pos, last, pc, req, ui, store, cnt>>

CalcNext == CalculateFromRisk

SpecCalc == CalcInit /\ [][CalcNext]_vars

CallMade == call.status \in {"ok", "raise"}

PlanReturned == call.status = "ok"

\* the intent's prices and amounts are all strictly positive
PositiveIntent ==
    /\ RPos(call.entry_price) /\ RPos(call.stop_loss)
    /\ RPos(call.risk_amount) /\ RPos(call.balance)
    /\ (call.take_profit # None => RPos(call.take_profit[1]))

(* C1: every plan calculate_from_risk returns has margin <= the balance passed in. *)
C1_MarginWithinBalance ==
    PlanReturned => RLe(call.plan[1].margin, call.balance)

\* a plan at leverage 2 or more is returned, so the margin is a fraction of the notional
C1_Witness ==
    /\ PlanReturned
    /\ call.plan[1].leverage >= 2
    /\ RLt(call.plan[1].margin, call.plan[1].notional)

(* C2: every returned plan has an integer leverage L with 1 <= L <= max_leverage,
   and a call whose ceil(notional / balance) exceeds max_leverage returns no plan. *)
C2_LeverageInRange ==
    /\ PlanReturned =>
         /\ call.plan[1].leverage \in Int
         /\ 1 <= call.plan[1].leverage
         /\ call.plan[1].leverage <= call.spec.max_leverage
    /\ (CallMade /\ call.entry_price # call.stop_loss /\ RPos(call.balance)) =>
         LET raw == RDiv(call.risk_amount, RAbs(RSub(call.entry_price, call.stop_loss)))
             notional == RMul(round_qty(call.spec.min_qty, raw), call.entry_price)
         IN  RCeil(RDiv(notional, call.balance)) > call.spec.max_leverage
                 => call.status = "raise"

\* a plan is returned at exactly the contract's maximum leverage
C2_Witness ==
    /\ PlanReturned
    /\ call.plan[1].leverage = call.spec.max_leverage
    /\ call.spec.max_leverage >= 2

(* C3: a returned liquidation price that is not undefined is strictly below the
   entry price for a long plan and strictly above it for a short plan.  Stated
   for strictly positive inputs and the program's DEFAULT_SPEC, whose rates lie
   in [0,1) and whose max_leverage is 200. *)
C3_LiquidationSideOfEntry ==
    (/\ PlanReturned /\ PositiveIntent /\ call.spec = DEFAULT_SPEC
     /\ call.plan[1].liquidation_price # None) =>
        LET liq == call.plan[1].liquidation_price[1]
            qty == call.plan[1].quantity
        IN  /\ RPos(qty) => RLt(liq, call.entry_price)
            /\ RPos(RNeg(qty)) => RLt(call.entry_price, liq)

(* C5: calculate_from_risk returns no plan when entry price, stop-loss, balance or
   risk amount is not strictly positive, or a supplied take-profit is not.
   Stated for the program's DEFAULT_SPEC. *)
C5_NonPositiveInputsRejected ==
    (CallMade /\ call.spec = DEFAULT_SPEC /\ ~PositiveIntent) => call.status = "raise"

(* C6: with direction long when entry > stop-loss and short otherwise, a call with
   strictly positive inputs whose take-profit is on the wrong side of entry
   (long: take-profit <= entry, short: take-profit >= entry) fails and returns no
   plan.  Stated for the program's DEFAULT_SPEC. *)
C6_WrongSideTakeProfitRejected ==
    (/\ CallMade /\ PositiveIntent /\ call.spec = DEFAULT_SPEC
     /\ call.take_profit # None
     /\ call.entry_price # call.stop_loss
     /\ IF RLt(call.stop_loss, call.entry_price)
        THEN RLe(call.take_profit[1], call.entry_price)
        ELSE RLe(call.entry_price, call.take_profit[1]))
    => call.status = "raise"

\* the largest integer multiple of the increment m > 0 that is <= x
FloorToIncrement(m, x) == RMul(RInt(RFloor(RDiv(x, m))), m)

(* C7: every returned plan has a non-zero quantity, strictly positive when
   entry > stop-loss and strictly negative when entry < stop-loss; a call (with
   strictly positive inputs) whose raw quantity risk_amount / |entry - stop_loss|,
   floored to the minimum increment, is <= 0 fails with the size-too-small error. *)
C7_QuantitySignEncodesDirection ==
    /\ PlanReturned =>
         /\ ~RIsZero(call.plan[1].quantity)
         /\ RLt(call.stop_loss, call.entry_price) => RPos(call.plan[1].quantity)
         /\ RLt(call.entry_price, call.stop_loss) => RPos(RNeg(call.plan[1].quantity))
    /\ (CallMade /\ PositiveIntent /\ call.entry_price # call.stop_loss
          /\ RPos(call.spec.min_qty)) =>
         LET raw == RDiv(call.risk_amount, RAbs(RSub(call.entry_price, call.stop_loss)))
         IN  RLe(FloorToIncrement(call.spec.min_qty, raw), RInt(0))
                 => (call.status = "raise" /\ call.error = "ValueError: quantity too small")

-----------------------------------------------------------------------------
(* Specification SpecPos: method calls on one CrossMarginPosition object *)

\* the default spec, one whose rates sum to 1 and one whose rates sum beyond 1
PosSpecs ==
    { DEFAULT_SPEC,
      ContractSpec(Rat(1, 100), 2, Rat(1, 2), Rat(1, 2)),
      ContractSpec(Rat(1, 2), 2, Rat(3, 4), Rat(1, 2)) }

PosBalances == { RInt(1), RInt(3) }

\* largest integer price handed to the position
MaxPosPrice == 2
\* leverages handed to the position: below, within and (for the specs capped at
\* 2) above the allowed range
PosLeverages == 0..3

PosPrices == { RInt(i) : i \in 1..MaxPosPrice }

\* requested quantities: zero, below every increment, fractional, whole; both signs
PosQtys ==
    { RInt(0), Rat(1, 20000), Rat(-1, 20000), Rat(1, 2), Rat(-1, 2), RInt(2) }

PosInit ==
    /\ pos \in { NewPosition(cs, b) : cs \in PosSpecs, b \in PosBalances }
    /\ last = [op |-> "none", status |-> "ok", error |-> "", quantity |-> RInt(0)]
    /\ rq = NoRq /\ call = NoCall
    /\ pc = "off" /\ req = NoReq /\ ui = << >> /\ store = << >> /\ cnt = NoCnt

OpenPosition ==
    \E entry_price \in PosPrices, quantity \in PosQtys, leverage \in PosLeverages :
        LET r == open_position(pos, entry_price, quantity, leverage)
        IN  /\ pos' = r.pos
            /\ last' = [op |-> "open_position", status |-> r.status, error |-> r.error,
                        quantity |-> quantity]
            /\ UNCHANGED <<rq, call, pc, req, ui, store, cnt>>

UpdateMarkPrice ==
    \E price \in PosPrices :
        LET r == update_mark_price(pos, price)
        IN  /\ pos' = r.pos
            /\ last' = [op |-> "update_mark_price", status |-> r.status,
                        error |-> r.error, quantity |-> RInt(0)]
            /\ UNCHANGED <<rq, call, pc, req, ui, store, cnt>>

AdjustLeverage ==
    \E new_leverage \in PosLeverages :
        LET r == adjust_leverage(pos, new_leverage)
        IN  /\ pos' = r.pos
            /\ last' = [op |-> "adjust_leverage", status |-> r.status,
                        error |-> r.error, quantity |-> RInt(0)]
            /\ UNCHANGED <<rq, call, pc, req, ui, store, cnt>>

PosNext == OpenPosition \/ UpdateMarkPrice \/ AdjustLeverage

SpecPos == PosInit /\ [][PosNext]_vars

(* C8: after any sequence of open_position, update_mark_price and adjust_leverage
   calls, get_liquidation_price returns None or a strictly positive price: None
   for an empty position, for a zero denominator qty*(mmr + liquidation_fee_rate
   -/+ 1) and for a solved price <= 0; never zero or a negative number. *)
C8_LiquidationPriceNoneOrPositive ==
    LET r == get_liquidation_price(pos)
    IN  /\ r = None \/ RPos(r[1])
        /\ RIsZero(pos.quantity) => r = None
        /\ (~RIsZero(pos.quantity) /\ RIsZero(LiqDenominator(pos))) => r = None
        /\ (~RIsZero(pos.quantity) /\ ~RIsZero(LiqDenominator(pos))
              /\ RLe(RDiv(LiqNumerator(pos), LiqDenominator(pos)), RInt(0))) => r = None

\* an open position whose solved price is negative, after a leverage adjustment
C8_Witness ==
    /\ last.op = "adjust_leverage" /\ last.status = "ok"
    /\ ~RIsZero(pos.quantity)
    /\ ~RIsZero(LiqDenominator(pos))
    /\ RLt(RDiv(LiqNumerator(pos), LiqDenominator(pos)), RInt(0))
    /\ get_liquidation_price(pos) = None

Sign(a) == IF a.n > 0 THEN 1 ELSE IF a.n < 0 THEN -1 ELSE 0

(* C10: every successful open_position leaves a non-zero stored quantity whose sign
   is the sign of the requested quantity, requested quantities below the minimum
   increment included; a failed open_position leaves entry_price, quantity,
   leverage and mark_price unchanged.  Stated for a position on the program's
   DEFAULT_SPEC. *)
C10_OpenKeepsSignOrLeavesUnchanged ==
    [][ (last'.op = "open_position" /\ pos.spec = DEFAULT_SPEC) =>
            IF last'.status = "ok"
            THEN Sign(pos'.quantity) # 0 /\ Sign(pos'.quantity) = Sign(last'.quantity)
            ELSE pos' = pos ]_vars

-----------------------------------------------------------------------------
(* main(), save_log and load_logs *)

\* round(x, 2): to the nearest hundredth, ties to the even hundredth
Round2(a) ==
    LET scaled == RMul(a, RInt(100))
        lo     == RFloor(scaled)
        rest   == scaled.n % scaled.d
        up     == IF 2 * rest > scaled.d THEN TRUE
                  ELSE IF 2 * rest < scaled.d THEN FALSE
                  ELSE lo % 2 = 1
    IN  Rat(IF up THEN lo + 1 ELSE lo, 100)

\* round(v, 2) if v else None: v is falsy when it is None or zero
Round2IfTruthy(v) ==
    IF v = None THEN None ELSE IF RIsZero(v[1]) THEN None ELSE Some(Round2(v[1]))

\* a rendered element: st.error / st.success / st.info / st.metric / st.write /
\* st.dataframe; the label names the literal text of the call, the detail is the
\* interpolated exception
Msg(widget, label, detail) == [widget |-> widget, label |-> label, detail |-> detail]

\* the widget values of one script run
Widgets(balance, risk_amount, entry_price, stop_loss, take_profit, calculate_btn) ==
    [balance |-> balance, risk_amount |-> risk_amount, entry_price |-> entry_price,
     stop_loss |-> stop_loss, take_profit |-> take_profit,
     calculate_btn |-> calculate_btn, plan |-> None, save |-> "none"]

\* the risk warnings of lines 319-331, or the success banner when there is none
RiskMessages(w, plan) ==
    LET is_long == RLt(w.stop_loss, w.entry_price)
        liq     == plan.liquidation_price
        liq_ok  == liq # None /\ ~RIsZero(liq[1])
        w1 == IF RLt(w.balance, plan.margin)
              THEN << Msg("error", "insufficient_funds", "") >> ELSE << >>
        w2 == IF liq_ok /\ is_long /\ RLt(RMul(w.entry_price, Rat(9, 10)), liq[1])
              THEN << Msg("error", "liquidation_risk", "") >> ELSE << >>
        w3 == IF liq_ok /\ ~is_long /\ RLt(liq[1], RMul(w.entry_price, Rat(11, 10)))
              THEN << Msg("error", "liquidation_risk", "") >> ELSE << >>
        warnings == w1 \o w2 \o w3
    IN  IF warnings = << >> THEN << Msg("success", "risk_check_passed", "") >> ELSE warnings

\* log_data of lines 334-348 (without the wall-clock date and the free-text symbol)
LogData(w, plan) ==
    [direction |-> IF RLt(w.stop_loss, w.entry_price) THEN "long" ELSE "short",
     leverage |-> plan.leverage, size |-> plan.quantity, balance |-> w.balance,
     entry |-> w.entry_price, sl |-> w.stop_loss,
     tp |-> IF RIsZero(w.take_profit) THEN None ELSE Some(w.take_profit),
     risk |-> RNeg(w.risk_amount),
     profit |-> Round2IfTruthy(plan.profit), rr |-> Round2IfTruthy(plan.rr),
     liq_price |-> Round2IfTruthy(plan.liquidation_price)]

\* Lines 292-331 and the except clause of line 352: what the handler renders once
\* calculate_from_risk has returned result or raised
Display(w, result) ==
    IF result.status = "raise"
    THEN [ui |-> << Msg("error", "calculation_error", result.error) >>, plan |-> None,
          pc |-> "history", calcs |-> 1]
    ELSE [ui |-> << Msg("metric", "plan", "") >> \o RiskMessages(w, result.plan[1]),
          plan |-> result.plan, pc |-> "save", calcs |-> 1]

\* The button handler of lines 265-348, up to the call of save_log: the elements
\* rendered, the plan computed, and where the script goes next ("stopped" after
\* st.stop(), "history" after the except clause, "save" to append the log).
Handler(w) ==
    IF w.entry_price = w.stop_loss
    THEN [ui |-> << Msg("error", "stop_equals_entry", "") >>, plan |-> None,
          pc |-> "stopped", calcs |-> 0]
    ELSE
    LET is_long == RLt(w.stop_loss, w.entry_price)
    IN
    IF is_long /\ RLe(w.take_profit, w.entry_price) /\ ~RIsZero(w.take_profit)
    THEN [ui |-> << Msg("error", "long_take_profit_not_above_entry", "") >>,
          plan |-> None, pc |-> "stopped", calcs |-> 0]
    ELSE
    IF ~is_long /\ RLe(w.entry_price, w.take_profit) /\ ~RIsZero(w.take_profit)
    THEN [ui |-> << Msg("error", "short_take_profit_not_below_entry", "") >>,
          plan |-> None, pc |-> "stopped", calcs |-> 0]
    ELSE
    Display(w, calculate_from_risk(w.entry_price, w.stop_loss, w.risk_amount,
                                   w.balance, DEFAULT_SPEC,
                                   IF RIsZero(w.take_profit) THEN None
                                   ELSE Some(w.take_profit)))

\* load_logs: the rows read and the element rendered by its except clause
load_logs(rows, read_ok) ==
    IF read_ok
    THEN [df |-> rows, ui |-> << >>]
    ELSE [df |-> << >>, ui |-> << Msg("error", "database_error", "read") >>]

\* save_log(new_data_dict) on a store holding rows: st.connection raises unless
\* conn_ok, conn.read() raises unless read_ok, conn.update raises unless update_ok
save_log(rows, new_data_dict, conn_ok, read_ok, update_ok) ==
    IF ~conn_ok
    THEN [status |-> "raise", error |-> "connection", rows |-> rows, ui |-> << >>]
    ELSE
    LET existing_data == load_logs(rows, read_ok)
        updated_data  == IF existing_data.df = << >>
                         THEN << new_data_dict >>
                         ELSE Append(existing_data.df, new_data_dict)
    IN  IF update_ok
        THEN [status |-> "ok", error |-> "", rows |-> updated_data,
              ui |-> existing_data.ui]
        ELSE [status |-> "raise", error |-> "update", rows |-> rows,
              ui |-> existing_data.ui]

-----------------------------------------------------------------------------
(* Specification SpecMain: script runs of main() against the log store *)

\* widget values; every number_input has a strictly positive min_value
MainBalances == { RInt(1), RInt(4) }

MainRisks == { RInt(3) }

MainEntries == { RInt(2), RInt(4) }

MainStops == { RInt(2), RInt(3), RInt(5), Rat(399, 100) }

MainTargets == { RInt(1), RInt(5) }

MainInit ==
    /\ pc = "idle" /\ req = NoReq /\ ui = << >> /\ store = << >> /\ cnt = NoCnt
    /\ rq = NoRq /\ call = NoCall /\ pos = NoPos /\ last = NoLast

\* the state of a run whose handler ended as h
Begin(w, h) ==
    /\ req' = [w EXCEPT !.plan = h.plan]
    /\ ui' = h.ui
    /\ pc' = h.pc
    /\ cnt' = [calcs |-> h.calcs, appends |-> 0]

\* A script run starts: lines 242-260 read the widgets; without a click the run
\* goes on to the history panel, with a click the handler runs up to save_log.
MainRun ==
    /\ pc \in {"idle", "done", "stopped"}
    /\ \E balance \in MainBalances, risk_amount \in MainRisks,
          entry_price \in MainEntries, stop_loss \in MainStops,
          take_profit \in MainTargets, calculate_btn \in BOOLEAN :
         LET w == Widgets(balance, risk_amount, entry_price, stop_loss, take_profit,
                          calculate_btn)
         IN  IF ~calculate_btn
             THEN Begin(w, [ui |-> << >>, plan |-> None, pc |-> "history", calcs |-> 0])
             ELSE Len(store) < MaxLogs /\ Begin(w, Handler(w))
    /\ UNCHANGED <<store, rq, call, pos, last>>

\* Line 349-353: save_log(log_data), then the confirmation, or the except clause
\* of main() when save_log raises.
MainSaveLog ==
    /\ pc = "save"
    /\ \E conn_ok \in BOOLEAN, read_ok \in BOOLEAN, update_ok \in BOOLEAN :
         LET r == save_log(store, LogData(req, req.plan[1]), conn_ok, read_ok, update_ok)
         IN  /\ store' = r.rows
             /\ req' = [req EXCEPT !.save = r.status]
             /\ ui' = ui \o r.ui \o
                      (IF r.status = "ok"
                       THEN << Msg("info", "log_written", "") >>
                       ELSE << Msg("error", "calculation_error", r.error) >>)
             /\ cnt' = [cnt EXCEPT !.appends = @ + 1]
    /\ pc' = "history"
    /\ UNCHANGED <<rq, call, pos, last>>

\* Lines 355-361: the history panel
MainHistory ==
    /\ pc = "history"
    /\ \E read_ok \in BOOLEAN :
         LET logs == load_logs(store, read_ok)
         IN  ui' = ui \o logs.ui \o
                   (IF logs.df # << >>
                    THEN << Msg("dataframe", "history", "") >>
                    ELSE << Msg("write", "no_history", "") >>)
    /\ pc' = "done"
    /\ UNCHANGED <<req, store, cnt, rq, call, pos, last>>

MainNext == MainRun \/ MainSaveLog \/ MainHistory

SpecMain == MainInit /\ [][MainNext]_vars

Rendered(label) == \E i \in 1..Len(ui) : ui[i].label = label

(* C9: once calculate_from_risk has returned a plan, a failing log append
   (save_log raising) leaves the plan displayed, does not run the calculation
   again, does not retry the append, and is reported as a log-store warning of
   its own and not as a calculation error. *)
C9_LogFailureReportedApart ==
    (pc \in {"history", "done"} /\ req.calculate_btn /\ req.plan # None
       /\ req.save = "raise") =>
        /\ Rendered("plan")
        /\ cnt.calcs = 1
        /\ cnt.appends = 1
        /\ ~Rendered("calculation_error")

=============================================================================
